---- MODULE Spec2Model ----
(***************************************************************************)
(* PySWATCal: the parallel execution engine (core/parallel_engine.py with  *)
(* core/swat_runner.py), the DDS, PSO and GLUE algorithms                  *)
(* (calibration/algorithms/dds.py, pso.py, glue.py), the parameter sampler *)
(* (calibration/sampling.py) and the metrics                               *)
(* (calibration/objective_functions.py) as one state machine.              *)
(*                                                                         *)
(* A driver script uses one component per behaviour (variable active).     *)
(* Real-valued quantities live on an integer grid; NaN is a value of its   *)
(* own with IEEE comparison rules.                                         *)
(***************************************************************************)
EXTENDS Integers, Sequences, FiniteSets, TLC

\* ------------------------------------------------------------------ bounds
MaxCores == 2      \* cpu_count() ranges over 1..MaxCores
MaxRuns == 2       \* len(parameter_sets) ranges over 0..MaxRuns
MaxIter == 2       \* DDS n_iterations ranges over 0..MaxIter
MaxPert == 3       \* a normal draw ranges over -MaxPert..MaxPert grid steps
MaxPsoIter == 2    \* PSO n_iterations ranges over 0..MaxPsoIter
MaxOptimize == 2   \* optimize is called at most MaxOptimize times on a DDS
MaxDraws == 2      \* one optimize takes 1..MaxDraws numbers from np.random
MaxStream == 4     \* numbers taken from np.random since it was last seeded
MaxLen == 3        \* the series handed to the metrics have 0..MaxLen values
MaxSamples == 6    \* the n_samples of ParameterSampler.sample: 1..MaxSamples
MaxCkptIter == 11  \* n_iterations of a checkpointed DDS run: 1..MaxCkptIter
MaxBatches == 2    \* one run_batch call is handed 0..MaxBatches arrays
MaxBatchCalls == 2 \* run_batch is called at most MaxBatchCalls times

\* --------------------------------------------------------------- variables
VARIABLES
    active,        \* component the driver uses: "none", "par", "dds", "pso",
                   \* "glue", "sam", "met", "twin", "refl",
                   \* "ckpt", "batch"
    \* ---- ParallelSWATRunner
    par_pc,        \* "new", "idle", "running", "returned", "raised"
    cores,         \* multiprocessing.cpu_count() as read by __init__
    requested,     \* the n_workers argument: [given, n]
    n_workers,     \* self.n_workers
    show_progress, \* self.show_progress
    has_callback,  \* callback is not None
    n_runs,        \* len(parameter_sets)
    status,        \* per task: "queued", "running", "finished", "collected"
    outcome,       \* per task: what its future holds once finished
    results,       \* the results list of run_parallel
    completed,     \* the completed counter of run_parallel
    reported,      \* last postfix handed to the progress bar
    cb_failed,     \* tasks whose completion callback raised
    order,         \* run ids in the order as_completed yielded them
    returned,      \* value returned by run_parallel
    \* ---- DDS
    dds_pc,        \* "new", "ctor_raised", "ready", "loop", "done", "failed"
    dds,           \* constructor arguments kept on the instance
    dds_best,      \* [params, value]: self.best_params, self.best_value
    dds_history,   \* self.history
    dds_iteration, \* the loop variable of optimize
    dds_calls,     \* number of calls made to objective_function
    dds_result,    \* the dict returned by the latest optimize, as returned
    dds_first,     \* the dict returned by the first optimize, as returned
    dds_runs,      \* number of optimize calls made on the instance
    \* ---- PSO
    pso_pc,        \* "new", "ctor_raised", "ready", "eval0", "loop", "done", "failed"
    pso,           \* constructor arguments kept on the instance
    positions,     \* positions[i]: position of particle i
    velocities,    \* velocities[i]
    fitness,       \* fitness[i]
    pbest,         \* [positions, fitness]: personal bests
    gbest,         \* [position, value]: self.global_best_position / _value
    pso_history,   \* self.history
    pso_iter,      \* the loop variable iteration
    pso_i,         \* the loop variable i (particle), 1-based
    pso_calls,     \* number of calls made to objective_function
    pso_last_arg,  \* the vector handed to the latest objective call
    pso_result,    \* the dict returned by optimize
    \* ---- GLUE
    glue_pc,       \* "new", "ctor_raised", "ready", "done", "failed"
    glue,          \* constructor arguments kept on the instance
    glue_args,     \* the arguments of the latest run call
    glue_res,      \* the dict returned by run
    \* ---- ParameterSampler
    sam_pc,        \* "new", "ctor_raised", "ready", "sampled", "raised"
    sam,           \* constructor arguments kept on the instance
    sam_n,         \* the n_samples argument of the latest sample call
    sam_out,       \* shape of the table returned by sample: [rows, cols]
    \* ---- objective functions
    met_in,        \* [observed, simulated] handed to the metrics
    met_out,       \* the values the six metrics returned for met_in
    \* ---- the generator of the process, and two DDS instances built alike
    rng,           \* the state of np.random: [seed, pos]
    twin,          \* per instance: [pc, seed, entry]
    \* ---- one component inside the reflection loop of _perturb_parameters
    refl,          \* [pc, lower, upper, start, new_value, passes]
    \* ---- DDS.optimize as far as its checkpoints depend on it
    ckpt,          \* [pc, n_iterations, checkpoint_dir, iteration, history,
                   \*  files, result]
    \* ---- BatchRunner
    batch          \* [pc, batch_results, parameter_sets_list, batch_names,
                   \*  returned, calls]

par_vars == <<par_pc, cores, requested, n_workers, show_progress, has_callback,
              n_runs, status, outcome, results, completed, reported,
              cb_failed, order, returned>>

dds_vars == <<dds_pc, dds, dds_best, dds_history, dds_iteration, dds_calls,
              dds_result, dds_first, dds_runs>>

pso_vars == <<pso_pc, pso, positions, velocities, fitness, pbest, gbest,
              pso_history, pso_iter, pso_i, pso_calls, pso_last_arg, pso_result>>

glue_vars == <<glue_pc, glue, glue_args, glue_res>>

sam_vars == <<sam_pc, sam, sam_n, sam_out>>

met_vars == <<met_in, met_out>>

rng_vars == <<rng, twin>>

ext_vars == <<refl, ckpt, batch>>

vars == <<active, par_vars, dds_vars, pso_vars, glue_vars, sam_vars, met_vars,
          rng_vars, ext_vars>>

\* ----------------------------------------------------------------- helpers
Min(a, b) == IF a < b THEN a ELSE b
Max(a, b) == IF a > b THEN a ELSE b

\* ===================================================== parallel engine ====
Tasks == 0 .. (n_runs - 1)

\* an empty slot of results ([None] * n_runs)
NoResult == [success |-> FALSE, run_id |-> -1, run_dir |-> -1, kind |-> "None"]

\* Python truthiness of a results slot: None is falsy, a record is truthy
Truthy(r) == r.kind # "None"

\* FileManager.create_run_directory: working_dir / f"run_{run_id}"; the
\* directory run_<k> is written k
SharedRunDirectory(run_id) == 0
create_run_directory(run_id) == run_id

\* SWATRunner.run_simulation, by the way it leaves: "ok" (returncode 0),
\* "nonzero" (returncode # 0), "timeout" (subprocess.TimeoutExpired),
\* "unexpected" (any other exception inside its try block)
run_simulation(run_id, how) ==
    [success |-> (how = "ok"), run_id |-> run_id,
     run_dir |-> create_run_directory(run_id), kind |-> how]

\* the directory the worker of a running task copies to, edits and executes
\* in: run_simulation uses the run_dir it created and nothing else
WorkDir(run_id) == create_run_directory(run_id)

\* the record built in the except branch of _run_single
RunSingleFailure(run_id) ==
    [success |-> FALSE, run_id |-> run_id, run_dir |-> -1, kind |-> "run_single_exc"]

\* ParallelSWATRunner._run_single: "mkdir_exc" is an exception that escapes
\* run_simulation (create_run_directory is outside its try block)
_run_single(run_id, how) ==
    IF how = "mkdir_exc" THEN RunSingleFailure(run_id)
    ELSE run_simulation(run_id, how)

\* the record built in the except branch of the completion loop
DispatchFailure(run_id) ==
    [success |-> FALSE, run_id |-> run_id, run_dir |-> -1, kind |-> "dispatch_exc"]

\* what a future holds when future.result() raises (worker process died,
\* result could not be sent back)
FutureRaises(run_id) ==
    [success |-> FALSE, run_id |-> run_id, run_dir |-> -1, kind |-> "future_exc"]

WorkerExits == {"ok", "nonzero", "timeout", "unexpected", "mkdir_exc"}

\* sum(1 for r in results[:completed] if r and r.get('success'))
CountSuccessPrefix(res, k) ==
    Cardinality({j \in 0 .. (Min(k, n_runs) - 1) : Truthy(res[j]) /\ res[j].success})

\* f"{n_success/completed*100:.1f}%" in tenths of a percent
RateTenths(n_success, k) == (2000 * n_success + k) \div (2 * k)

\* results[run_id] = result
StoreByCompletion(res, run_id, rec) == [res EXCEPT ![completed] = rec]
StoreResult(res, run_id, rec) == [res EXCEPT ![run_id] = rec]

\* ParallelSWATRunner.__init__
ParConstruct ==
    /\ active = "none"
    /\ par_pc = "new"
    /\ \E cpu_count \in 1 .. MaxCores,
          req \in {[given |-> FALSE, n |-> 0]}
                  \cup {[given |-> TRUE, n |-> k] : k \in -1 .. (MaxCores + 1)},
          sp \in BOOLEAN :
         LET n1 == IF ~req.given THEN Max(1, cpu_count - 1) ELSE req.n
         IN  /\ cores' = cpu_count
             /\ requested' = req
             /\ show_progress' = sp
             /\ n_workers' = Min(n1, cpu_count)
    /\ active' = "par"
    /\ par_pc' = "idle"
    /\ UNCHANGED <<dds_vars, pso_vars, glue_vars, sam_vars, met_vars, rng_vars, ext_vars>>
    /\ UNCHANGED <<has_callback, n_runs, status, outcome, results,
                   completed, reported, cb_failed, order, returned>>

\* run_parallel up to the submission of all tasks; ProcessPoolExecutor
\* raises ValueError when max_workers <= 0
RunParallelStart ==
    /\ par_pc = "idle"
    /\ \E n \in 0 .. MaxRuns, cb \in BOOLEAN :
         /\ n_runs' = n
         /\ has_callback' = cb
         /\ results' = [i \in 0 .. (n - 1) |-> NoResult]
         /\ outcome' = [i \in 0 .. (n - 1) |-> NoResult]
         /\ status' = [i \in 0 .. (n - 1) |-> "queued"]
    /\ completed' = 0
    /\ par_pc' = IF n_workers <= 0 THEN "raised" ELSE "running"
    /\ UNCHANGED <<dds_vars, pso_vars, glue_vars, sam_vars, met_vars, rng_vars, ext_vars>>
    /\ UNCHANGED <<active, cores, requested, n_workers, show_progress,
                   reported, cb_failed, order, returned>>

\* a free worker process takes the oldest queued task
WorkerStart(i) ==
    /\ par_pc = "running"
    /\ status[i] = "queued"
    /\ \A j \in Tasks : j < i => status[j] # "queued"
    /\ Cardinality({j \in Tasks : status[j] = "running"}) < n_workers
    /\ status' = [status EXCEPT ![i] = "running"]
    /\ UNCHANGED <<dds_vars, pso_vars, glue_vars, sam_vars, met_vars, rng_vars, ext_vars>>
    /\ UNCHANGED <<active, par_pc, cores, requested, n_workers, show_progress,
                   has_callback, n_runs, outcome, results, completed,
                   reported, cb_failed, order, returned>>

\* the worker finishes _run_single(run_id, params), or its future fails
WorkerFinish(i) ==
    /\ par_pc = "running"
    /\ status[i] = "running"
    /\ \E rec \in {_run_single(i, how) : how \in WorkerExits} \cup {FutureRaises(i)} :
         outcome' = [outcome EXCEPT ![i] = rec]
    /\ status' = [status EXCEPT ![i] = "finished"]
    /\ UNCHANGED <<dds_vars, pso_vars, glue_vars, sam_vars, met_vars, rng_vars, ext_vars>>
    /\ UNCHANGED <<active, par_pc, cores, requested, n_workers, show_progress,
                   has_callback, n_runs, results, completed, reported,
                   cb_failed, order, returned>>

\* one pass of the body of "for future in as_completed(future_to_task)"
Collect(i) ==
    /\ par_pc = "running"
    /\ status[i] = "finished"
    /\ \E cb_raises \in BOOLEAN :
         /\ cb_raises => (has_callback /\ outcome[i].kind # "future_exc")
         /\ LET raised == outcome[i].kind = "future_exc" \/ cb_raises
                rec == IF raised THEN DispatchFailure(i) ELSE outcome[i]
                res1 == StoreResult(results, i, rec)
                k == completed + 1
                n_success == CountSuccessPrefix(res1, k)
            IN  /\ results' = res1
                /\ completed' = k
                /\ cb_failed' = IF cb_raises THEN cb_failed \cup {i} ELSE cb_failed
                /\ order' = Append(order, i)
                /\ reported' = IF show_progress
                               THEN [shown |-> TRUE, success |-> n_success,
                                     completed |-> k,
                                     rate |-> RateTenths(n_success, k)]
                               ELSE reported
    /\ status' = [status EXCEPT ![i] = "collected"]
    /\ UNCHANGED <<dds_vars, pso_vars, glue_vars, sam_vars, met_vars, rng_vars, ext_vars>>
    /\ UNCHANGED <<active, par_pc, cores, requested, n_workers, show_progress,
                   has_callback, n_runs, outcome, returned>>

\* as_completed is exhausted: run_parallel returns results
RunParallelReturn ==
    /\ par_pc = "running"
    /\ \A i \in Tasks : status[i] = "collected"
    /\ returned' = [i \in Tasks |-> results[i]]
    /\ par_pc' = "returned"
    /\ UNCHANGED <<dds_vars, pso_vars, glue_vars, sam_vars, met_vars, rng_vars, ext_vars>>
    /\ UNCHANGED <<active, cores, requested, n_workers, show_progress,
                   has_callback, n_runs, status, outcome, results, completed,
                   reported, cb_failed, order>>

ParInit ==
    /\ par_pc = "new"
    /\ cores = 0
    /\ requested = [given |-> FALSE, n |-> 0]
    /\ n_workers = 0
    /\ show_progress = FALSE
    /\ has_callback = FALSE
    /\ n_runs = 0
    /\ status = << >>
    /\ outcome = << >>
    /\ results = << >>
    /\ completed = 0
    /\ reported = [shown |-> FALSE, success |-> 0, completed |-> 0, rate |-> 0]
    /\ cb_failed = {}
    /\ order = << >>
    /\ returned = << >>

ParNext ==
    \/ ParConstruct
    \/ RunParallelStart
    \/ \E i \in Tasks : WorkerStart(i)
    \/ \E i \in Tasks : WorkerFinish(i)
    \/ \E i \in Tasks : Collect(i)
    \/ RunParallelReturn

\* ================================================================= DDS ====
\* float('nan'), and None where a number is expected
NaN == 99
NoneV == 98

\* values the objective callable returns
ObjValues == {0, 1, NaN}
\* ways a call of the objective callable ends: a value, or an exception
ObjOutcomes ==
    {[raises |-> FALSE, value |-> v] : v \in ObjValues}
        \cup {[raises |-> TRUE, value |-> NaN]}

\* IEEE comparisons: every comparison with NaN is false
Gt(a, b) == a # NaN /\ b # NaN /\ a > b
Lt(a, b) == a # NaN /\ b # NaN /\ a < b

\* bounds handed to the constructors: valid ones and ones with lower >= upper
BoundsChoices ==
    { << <<0, 2>> >>, << <<0, 1>>, <<1, 2>> >>,
      << <<1, 1>> >>, << <<0, 1>>, <<2, 1>> >> }

\* r in tenths: 0.0, 0.2, 1.0
RChoices == {0, 2, 10}

\* caller-supplied starting vectors: right and wrong length, in and out of bounds
InitialChoices ==
    { <<0>>, <<2>>, <<3>>, <<1, 2>>, <<-1, 1>>, <<0, 1, 1>> }

Lower(b, i) == b[i][1]
Upper(b, i) == b[i][2]

\* for i, (lower, upper) in enumerate(bounds): if lower >= upper: raise
BoundsNotReversed(b) == \A i \in 1 .. Len(b) : Lower(b, i) <= Upper(b, i)
BoundsValid(b) == \A i \in 1 .. Len(b) : Lower(b, i) < Upper(b, i)

\* vectors with every component inside its bounds
InBounds(p, b) ==
    /\ Len(p) = Len(b)
    /\ \A i \in 1 .. Len(b) : Lower(b, i) <= p[i] /\ p[i] <= Upper(b, i)

EmptyHistory ==
    [iteration |-> << >>, objective_value |-> << >>, best_value |-> << >>,
     n_perturbed_params |-> << >>, parameters |-> << >>]

NoBest == [params |-> << >>, value |-> NoneV]

NoDDSResult ==
    [returned |-> FALSE, best_params |-> << >>, best_value |-> NoneV,
     n_evaluations |-> 0, history |-> EmptyHistory, success |-> FALSE,
     error |-> "none", duration |-> FALSE]

\* DDS.__init__
DDSInitWith(b, n, r, mx) ==
    /\ active = "none"
    /\ dds_pc = "new"
    /\ dds' = [bounds |-> b, n_params |-> Len(b), n_iterations |-> n,
               r |-> r, maximize |-> mx]
    /\ dds_pc' = IF ~(0 < r /\ r < 10) THEN "ctor_raised"
                 ELSE IF n < 1 THEN "ctor_raised"
                 ELSE IF ~BoundsValid(b) THEN "ctor_raised"
                 ELSE "ready"
    /\ active' = "dds"
    /\ UNCHANGED <<dds_best, dds_history, dds_iteration, dds_calls, dds_result,
                   dds_first, dds_runs>>
    /\ UNCHANGED <<par_vars, pso_vars, glue_vars, sam_vars, met_vars, rng_vars, ext_vars>>

\* DDS(bounds, objective, n_iterations, r, maximize) for any arguments
DDSConstruct ==
    \E b \in BoundsChoices, n \in 0 .. MaxIter, r \in RChoices, mx \in BOOLEAN :
        DDSInitWith(b, n, r, mx)

\* DDS([(0, 2)], objective, n_iterations=1, r=0.2, maximize)
DDSConstructOne ==
    \E mx \in BOOLEAN : DDSInitWith(<< <<0, 2>> >>, 1, 2, mx)

\* DDS._random_initial: np.random.uniform(lower, upper) per dimension
RandomInitial(b) ==
    {p \in [1 .. Len(b) -> -1 .. 2] :
        \A i \in 1 .. Len(b) : Lower(b, i) <= p[i] /\ p[i] < Upper(b, i)}

\* DDS._validate_params: TRUE when it returns without raising
_validate_params(p, b) ==
    /\ Len(p) = Len(b)
    /\ \A i \in 1 .. Len(b) : Lower(b, i) <= p[i] /\ p[i] <= Upper(b, i)

\* DDS._is_better
DDS_is_not_worse(new_value, current_value, maximize) ==
    IF maximize THEN ~Lt(new_value, current_value)
    ELSE ~Gt(new_value, current_value)
DDS_is_better(new_value, current_value, maximize) ==
    IF maximize THEN Gt(new_value, current_value)
    ELSE Lt(new_value, current_value)

\* DDS._update_history; best_value is self.best_value at the time of the call
UpdateHistoryOnImprovement(h, iteration, params, value, n_perturbed, best_value) ==
    IF iteration = 0 \/ value = best_value
    THEN [iteration |-> Append(h.iteration, iteration),
          objective_value |-> Append(h.objective_value, value),
          best_value |-> Append(h.best_value, best_value),
          n_perturbed_params |-> Append(h.n_perturbed_params, n_perturbed),
          parameters |-> Append(h.parameters, params)]
    ELSE h
DDS_update_history(h, iteration, params, value, n_perturbed, best_value) ==
    [iteration |-> Append(h.iteration, iteration),
     objective_value |-> Append(h.objective_value, value),
     best_value |-> Append(h.best_value, best_value),
     n_perturbed_params |-> Append(h.n_perturbed_params, n_perturbed),
     parameters |-> Append(h.parameters, params)]

\* one pass of the body of the reflection loop of _perturb_parameters
ReflectLowerOnly(v, lower, upper) ==
    IF v < lower THEN lower + (lower - v) ELSE v
ReflectStep(v, lower, upper) ==
    LET a == IF v < lower THEN lower + (lower - v) ELSE v
    IN  IF a > upper THEN upper - (a - upper) ELSE a

\* while new_value < lower or new_value > upper: ...
RECURSIVE ReflectLoop(_, _, _)
ReflectLoop(v, lower, upper) ==
    IF v < lower \/ v > upper
    THEN ReflectLoop(ReflectStep(v, lower, upper), lower, upper)
    ELSE v

NoReflection(v, lower, upper) == v
Reflect(v, lower, upper) == ReflectLoop(v, lower, upper)

\* DDS._perturb_parameters with the normal draws given: pert[i] is the draw
\* of dimension i
_perturb_parameters(params, perturb_mask, pert, b) ==
    [i \in 1 .. Len(params) |->
        IF i \in perturb_mask
        THEN Reflect(params[i] + pert[i], Lower(b, i), Upper(b, i))
        ELSE params[i]]

\* the masks "np.random.random(n_params) < prob" can give at iteration t,
\* after the forced single dimension when none was drawn.
\* prob = 1 - log(t)/log(n_iterations): NaN when n_iterations = 1 (0/0),
\* 1 at t = 1, 0 at t = n_iterations, strictly between otherwise
PerturbMasks(t, n_iterations, n_params) ==
    LET all == 1 .. n_params
        singles == {{i} : i \in all}
    IN  IF n_iterations = 1 THEN singles
        ELSE IF t = 1 THEN {all}
        ELSE IF t = n_iterations THEN singles
        ELSE (SUBSET all) \ {{}}

\* the dict of the except branch of optimize; error is str(e), kept as the
\* place the exception came from
DDSFailureForgetsBest(best, h, e) ==
    [returned |-> TRUE, best_params |-> << >>, best_value |-> NoneV,
     n_evaluations |-> Len(h.iteration), history |-> h, success |-> FALSE,
     error |-> e, duration |-> FALSE]
DDSFailure(best, h, e) ==
    [returned |-> TRUE, best_params |-> best.params, best_value |-> best.value,
     n_evaluations |-> Len(h.iteration), history |-> h, success |-> FALSE,
     error |-> e, duration |-> FALSE]

\* the dict returned at the end of the try block of optimize
DDSSuccess(best, h, n_iterations) ==
    [returned |-> TRUE, best_params |-> best.params, best_value |-> best.value,
     n_evaluations |-> n_iterations, history |-> h, success |-> TRUE,
     error |-> "none", duration |-> TRUE]

\* the dict the first optimize call returned, once a call has returned res
FirstAfter(res) ==
    IF ~dds_first.returned /\ res.returned THEN res ELSE dds_first

\* the dict the first optimize call returned as its holder sees it now: its
\* 'history' is the object self.history, not a copy
FirstResultNow == [dds_first EXCEPT !.history = dds_history]

\* optimize from its entry up to the start of the main loop
DDSOptimizeEntry ==
    /\ \E given \in BOOLEAN, init \in InitialChoices,
          rnd \in RandomInitial(dds.bounds), out \in ObjOutcomes :
         LET current_params == IF given THEN init ELSE rnd
             valid == ~given \/ _validate_params(current_params, dds.bounds)
         IN  IF ~valid
             THEN \* _validate_params raised inside the try block
                  /\ dds_pc' = "failed"
                  /\ dds_result' = DDSFailure(dds_best, dds_history, "validate")
                  /\ UNCHANGED <<dds_best, dds_history, dds_iteration, dds_calls>>
             ELSE IF out.raises
             THEN /\ dds_pc' = "failed"
                  /\ dds_calls' = dds_calls + 1
                  /\ dds_result' = DDSFailure(dds_best, dds_history, "objective")
                  /\ UNCHANGED <<dds_best, dds_history, dds_iteration>>
             ELSE /\ dds_pc' = "loop"
                  /\ dds_calls' = dds_calls + 1
                  /\ dds_best' = [params |-> current_params, value |-> out.value]
                  /\ dds_history' = DDS_update_history(dds_history, 0,
                                        current_params, out.value, 0, out.value)
                  /\ dds_iteration' = 1
                  /\ UNCHANGED dds_result
    /\ dds_first' = FirstAfter(dds_result')
    /\ dds_runs' = dds_runs + 1
    /\ UNCHANGED <<active, dds>>
    /\ UNCHANGED <<par_vars, pso_vars, glue_vars, sam_vars, met_vars, rng_vars, ext_vars>>

\* the first optimize call on the instance
DDSOptimizeStart ==
    /\ dds_pc = "ready"
    /\ DDSOptimizeEntry

\* a later optimize call on the same instance
DDSOptimizeAgain ==
    /\ dds_pc \in {"done", "failed"}
    /\ dds_runs < MaxOptimize
    /\ DDSOptimizeEntry

\* the vector handed to _perturb_parameters: self.best_params
LastCandidate == dds_history.parameters[Len(dds_history.parameters)]
PerturbBase == dds_best.params

\* one pass of "for iteration in range(1, self.n_iterations + 1)", called
\* with checkpoint_dir=None; cb_raises is the callback raising
DDSIterate ==
    /\ dds_pc = "loop"
    /\ dds_iteration <= dds.n_iterations
    /\ \E perturb_mask \in PerturbMasks(dds_iteration, dds.n_iterations, dds.n_params),
          pert \in [1 .. dds.n_params -> -MaxPert .. MaxPert],
          out \in ObjOutcomes, cb_raises \in BOOLEAN :
         LET n_perturbed == Cardinality(perturb_mask)
             new_params == _perturb_parameters(PerturbBase, perturb_mask,
                                               pert, dds.bounds)
         IN  /\ \A i \in 1 .. dds.n_params : i \notin perturb_mask => pert[i] = 0
             /\ cb_raises => ~out.raises
             /\ IF out.raises
                THEN /\ dds_pc' = "failed"
                     /\ dds_calls' = dds_calls + 1
                     /\ dds_result' = DDSFailure(dds_best, dds_history, "objective")
                     /\ UNCHANGED <<dds_best, dds_history, dds_iteration>>
                ELSE LET is_better == DDS_is_better(out.value, dds_best.value, dds.maximize)
                         best1 == IF is_better
                                  THEN [params |-> new_params, value |-> out.value]
                                  ELSE dds_best
                         h1 == DDS_update_history(dds_history, dds_iteration,
                                   new_params, out.value, n_perturbed, best1.value)
                     IN  /\ dds_calls' = dds_calls + 1
                         /\ dds_best' = best1
                         /\ dds_history' = h1
                         /\ IF cb_raises
                            THEN \* callback(iteration, best_params, best_value) raised
                                 /\ dds_pc' = "failed"
                                 /\ dds_result' = DDSFailure(best1, h1, "callback")
                                 /\ UNCHANGED dds_iteration
                            ELSE /\ dds_iteration' = dds_iteration + 1
                                 /\ UNCHANGED <<dds_pc, dds_result>>
    /\ dds_first' = FirstAfter(dds_result')
    /\ UNCHANGED <<active, dds, dds_runs>>
    /\ UNCHANGED <<par_vars, pso_vars, glue_vars, sam_vars, met_vars, rng_vars, ext_vars>>

\* the loop is exhausted: optimize returns its result
DDSReturn ==
    /\ dds_pc = "loop"
    /\ dds_iteration > dds.n_iterations
    /\ dds_result' = DDSSuccess(dds_best, dds_history, dds.n_iterations)
    /\ dds_pc' = "done"
    /\ dds_first' = FirstAfter(dds_result')
    /\ UNCHANGED <<active, dds, dds_best, dds_history, dds_iteration, dds_calls,
                   dds_runs>>
    /\ UNCHANGED <<par_vars, pso_vars, glue_vars, sam_vars, met_vars, rng_vars, ext_vars>>

DDSInit ==
    /\ dds_pc = "new"
    /\ dds = [bounds |-> << >>, n_params |-> 0, n_iterations |-> 0, r |-> 0,
              maximize |-> TRUE]
    /\ dds_best = NoBest
    /\ dds_history = EmptyHistory
    /\ dds_iteration = 0
    /\ dds_calls = 0
    /\ dds_result = NoDDSResult
    /\ dds_first = NoDDSResult
    /\ dds_runs = 0

DDSNext ==
    \/ DDSConstruct
    \/ DDSOptimizeStart
    \/ DDSIterate
    \/ DDSReturn

\* ================================================================= PSO ====
\* w, c1, c2 on the integer grid (the defaults 0.7, 1.5, 1.5 rounded)
PSOCoefs == {[w |-> 1, c1 |-> 2, c2 |-> 2]}

\* n_particles handed to the constructor: one too few, and the smallest swarm
ParticleChoices == {1, 2}

\* r1, r2 = np.random.random(2): the ends of [0, 1) on the grid
RandomUnit == {0, 1}

EmptyPSOHistory ==
    [iteration |-> << >>, global_best_value |-> << >>,
     swarm_best_value |-> << >>, swarm_mean_value |-> << >>]

NoGBest == [position |-> << >>, value |-> NoneV]

NoPSOResult ==
    [returned |-> FALSE, best_params |-> << >>, best_value |-> NoneV,
     n_evaluations |-> 0, history |-> EmptyPSOHistory, success |-> FALSE,
     error |-> "none", duration |-> FALSE]

\* PSO.__init__
PSOConstruct ==
    /\ active = "none"
    /\ pso_pc = "new"
    /\ \E b \in BoundsChoices, np \in ParticleChoices, n \in 0 .. MaxPsoIter,
          co \in PSOCoefs, mx \in BOOLEAN :
         /\ pso' = [bounds |-> b, n_params |-> Len(b), n_particles |-> np,
                    n_iterations |-> n, w |-> co.w, c1 |-> co.c1, c2 |-> co.c2,
                    maximize |-> mx]
         /\ pso_pc' = IF np < 2 THEN "ctor_raised"
                      ELSE IF n < 1 THEN "ctor_raised"
                      ELSE IF ~BoundsValid(b) THEN "ctor_raised"
                      ELSE "ready"
    /\ active' = "pso"
    /\ UNCHANGED <<positions, velocities, fitness, pbest, gbest, pso_history,
                   pso_iter, pso_i, pso_calls, pso_last_arg, pso_result>>
    /\ UNCHANGED <<par_vars, dds_vars, glue_vars, sam_vars, met_vars, rng_vars, ext_vars>>

\* v_max = 0.2 * (upper - lower), rounded towards zero on the grid
VMax(lower, upper) == (2 * (upper - lower)) \div 10

\* PSO._initialize_swarm: the <<positions, velocities>> it can return
_initialize_swarm(b, n_particles) ==
    LET P == {p \in [1 .. Len(b) -> -1 .. 2] :
                 \A d \in 1 .. Len(b) : Lower(b, d) <= p[d] /\ p[d] < Upper(b, d)}
        V == {v \in [1 .. Len(b) -> -1 .. 1] :
                 \A d \in 1 .. Len(b) :
                     /\ -VMax(Lower(b, d), Upper(b, d)) <= v[d]
                     /\ v[d] <= VMax(Lower(b, d), Upper(b, d))}
    IN  [1 .. n_particles -> P] \X [1 .. n_particles -> V]

\* np.clip(x, lower, upper)
ClipUpperOnly(x, lower, upper) == IF x > upper THEN upper ELSE x
Clip(x, lower, upper) ==
    IF x < lower THEN lower ELSE IF x > upper THEN upper ELSE x

\* PSO._apply_bounds
_apply_bounds(position, b) ==
    [d \in 1 .. Len(position) |-> Clip(position[d], Lower(b, d), Upper(b, d))]

\* PSO._is_better
PSO_is_worse(new_value, current_value, maximize) ==
    IF maximize THEN Lt(new_value, current_value)
    ELSE Gt(new_value, current_value)
PSO_is_better(new_value, current_value, maximize) ==
    IF maximize THEN Gt(new_value, current_value)
    ELSE Lt(new_value, current_value)

\* np.argmax / np.argmin: the first NaN if there is one, else the first
\* index of the extreme value
ArgBest(fit, maximize) ==
    LET idx == 1 .. Len(fit)
        nans == {i \in idx : fit[i] = NaN}
        ext == {i \in idx : \A j \in idx :
                   IF maximize THEN fit[i] >= fit[j] ELSE fit[i] <= fit[j]}
        pick(S) == CHOOSE i \in S : \A j \in S : i <= j
    IN  IF nans # {} THEN pick(nans) ELSE pick(ext)

\* np.max / np.min: NaN if there is one
SwarmBest(fit, maximize) == fit[ArgBest(fit, maximize)]

RECURSIVE SumSeq(_)
SumSeq(q) == IF q = << >> THEN 0 ELSE Head(q) + SumSeq(Tail(q))

\* np.mean(fitness) as the fraction sum/len; NaN if any entry is NaN
SwarmMean(fit) ==
    IF \E i \in 1 .. Len(fit) : fit[i] = NaN
    THEN [num |-> NaN, den |-> Len(fit)]
    ELSE [num |-> SumSeq(fit), den |-> Len(fit)]

\* PSO._update_history
PSO_update_history(h, iteration, fit, global_best_value, maximize) ==
    [iteration |-> Append(h.iteration, iteration),
     global_best_value |-> Append(h.global_best_value, global_best_value),
     swarm_best_value |-> Append(h.swarm_best_value, SwarmBest(fit, maximize)),
     swarm_mean_value |-> Append(h.swarm_mean_value, SwarmMean(fit))]

\* the dict of the except branch of optimize; error is str(e), kept as the
\* place the exception came from
PSOFailure(gb, h, n_particles, e) ==
    [returned |-> TRUE, best_params |-> gb.position, best_value |-> gb.value,
     n_evaluations |-> Len(h.iteration) * n_particles, history |-> h,
     success |-> FALSE, error |-> e, duration |-> FALSE]

\* the dict returned at the end of the try block of optimize
PSOSuccess(gb, h, n_particles, n_iterations) ==
    [returned |-> TRUE, best_params |-> gb.position, best_value |-> gb.value,
     n_evaluations |-> n_particles * n_iterations, history |-> h,
     success |-> TRUE, error |-> "none", duration |-> TRUE]

\* optimize from its entry to the first objective call
PSOOptimizeStart ==
    /\ pso_pc = "ready"
    /\ \E sw \in _initialize_swarm(pso.bounds, pso.n_particles) :
         /\ positions' = sw[1]
         /\ velocities' = sw[2]
    /\ fitness' = [i \in 1 .. pso.n_particles |-> 0]
    /\ pso_i' = 1
    /\ pso_pc' = "eval0"
    /\ UNCHANGED <<active, pso, pbest, gbest, pso_history, pso_iter, pso_calls,
                   pso_last_arg, pso_result>>
    /\ UNCHANGED <<par_vars, dds_vars, glue_vars, sam_vars, met_vars, rng_vars, ext_vars>>

\* one pass of the initial evaluation loop; after the last particle the
\* personal bests and the global best are seeded
PSOInitialEval ==
    /\ pso_pc = "eval0"
    /\ \E out \in ObjOutcomes :
         /\ pso_calls' = pso_calls + 1
         /\ pso_last_arg' = positions[pso_i]
         /\ IF out.raises
            THEN /\ pso_pc' = "failed"
                 /\ pso_result' = PSOFailure(gbest, pso_history, pso.n_particles, "objective")
                 /\ UNCHANGED <<fitness, pbest, gbest, pso_i, pso_iter>>
            ELSE LET fit1 == [fitness EXCEPT ![pso_i] = out.value]
                 IN  /\ fitness' = fit1
                     /\ UNCHANGED pso_result
                     /\ IF pso_i < pso.n_particles
                        THEN /\ pso_i' = pso_i + 1
                             /\ UNCHANGED <<pso_pc, pbest, gbest, pso_iter>>
                        ELSE LET best_idx == ArgBest(fit1, pso.maximize)
                             IN  /\ pbest' = [positions |-> positions, fitness |-> fit1]
                                 /\ gbest' = [position |-> positions[best_idx],
                                              value |-> fit1[best_idx]]
                                 /\ pso_iter' = 0
                                 /\ pso_i' = 1
                                 /\ pso_pc' = "loop"
    /\ UNCHANGED <<active, pso, positions, velocities, pso_history>>
    /\ UNCHANGED <<par_vars, dds_vars, glue_vars, sam_vars, met_vars, rng_vars, ext_vars>>

\* one pass of "for i in range(self.n_particles)" inside the main loop; after
\* the last particle of an iteration the history entry is recorded
PSOStep ==
    /\ pso_pc = "loop"
    /\ pso_iter < pso.n_iterations
    /\ \E r1 \in RandomUnit, r2 \in RandomUnit, out \in ObjOutcomes :
         LET i == pso_i
             D == 1 .. pso.n_params
             cognitive == [d \in D |->
                 pso.c1 * r1 * (pbest.positions[i][d] - positions[i][d])]
             social == [d \in D |->
                 pso.c2 * r2 * (gbest.position[d] - positions[i][d])]
             vel1 == [d \in D |-> pso.w * velocities[i][d] + cognitive[d] + social[d]]
             moved == [d \in D |-> positions[i][d] + vel1[d]]
             pos1 == _apply_bounds(moved, pso.bounds)
         IN  /\ velocities' = [velocities EXCEPT ![i] = vel1]
             /\ positions' = [positions EXCEPT ![i] = pos1]
             /\ pso_calls' = pso_calls + 1
             /\ pso_last_arg' = pos1
             /\ IF out.raises
                THEN /\ pso_pc' = "failed"
                     /\ pso_result' = PSOFailure(gbest, pso_history, pso.n_particles, "objective")
                     /\ UNCHANGED <<fitness, pbest, gbest, pso_history, pso_iter, pso_i>>
                ELSE LET fit1 == [fitness EXCEPT ![i] = out.value]
                         pb1 == IF PSO_is_better(out.value, pbest.fitness[i], pso.maximize)
                                THEN [positions |-> [pbest.positions EXCEPT ![i] = pos1],
                                      fitness |-> [pbest.fitness EXCEPT ![i] = out.value]]
                                ELSE pbest
                         gb1 == IF PSO_is_better(out.value, gbest.value, pso.maximize)
                                THEN [position |-> pos1, value |-> out.value]
                                ELSE gbest
                     IN  /\ fitness' = fit1
                         /\ pbest' = pb1
                         /\ gbest' = gb1
                         /\ UNCHANGED <<pso_pc, pso_result>>
                         /\ IF i < pso.n_particles
                            THEN /\ pso_i' = i + 1
                                 /\ UNCHANGED <<pso_history, pso_iter>>
                            ELSE /\ pso_history' = PSO_update_history(pso_history,
                                        pso_iter, fit1, gb1.value, pso.maximize)
                                 /\ pso_iter' = pso_iter + 1
                                 /\ pso_i' = 1
    /\ UNCHANGED <<active, pso>>
    /\ UNCHANGED <<par_vars, dds_vars, glue_vars, sam_vars, met_vars, rng_vars, ext_vars>>

\* the main loop is exhausted: optimize returns its result
PSOReturn ==
    /\ pso_pc = "loop"
    /\ pso_iter >= pso.n_iterations
    /\ pso_result' = PSOSuccess(gbest, pso_history, pso.n_particles, pso.n_iterations)
    /\ pso_pc' = "done"
    /\ UNCHANGED <<active, pso, positions, velocities, fitness, pbest, gbest,
                   pso_history, pso_iter, pso_i, pso_calls, pso_last_arg>>
    /\ UNCHANGED <<par_vars, dds_vars, glue_vars, sam_vars, met_vars, rng_vars, ext_vars>>

PSOInit ==
    /\ pso_pc = "new"
    /\ pso = [bounds |-> << >>, n_params |-> 0, n_particles |-> 0,
              n_iterations |-> 0, w |-> 0, c1 |-> 0, c2 |-> 0, maximize |-> TRUE]
    /\ positions = << >>
    /\ velocities = << >>
    /\ fitness = << >>
    /\ pbest = [positions |-> << >>, fitness |-> << >>]
    /\ gbest = NoGBest
    /\ pso_history = EmptyPSOHistory
    /\ pso_iter = 0
    /\ pso_i = 0
    /\ pso_calls = 0
    /\ pso_last_arg = << >>
    /\ pso_result = NoPSOResult

PSONext ==
    \/ PSOConstruct
    \/ PSOOptimizeStart
    \/ PSOInitialEval
    \/ PSOStep
    \/ PSOReturn

\* ================================================================ GLUE ====
\* n_samples handed to the constructor: one too few, and the smallest run
NSamplesChoices == {9, 10}

\* bounds handed to the constructor: one parameter, valid or not
GlueBoundsChoices == { << <<0, 2>> >>, << <<1, 1>> >>, << <<2, 1>> >> }

\* the behavioral threshold
ThresholdChoices == {0, 1}

\* sampling_method handed to run; the docstring of run names 'lhs', 'random'
SamplingMethods == {"lhs", "random", "sobol"}
GlueSupportedMethods == {"lhs", "random"}

\* likelihood_function handed to run
LikelihoodFunctions == {"threshold", "linear", "exponential"}

\* a >= b and a <= b on floats: False when either side is NaN
Ge(a, b) == a # NaN /\ b # NaN /\ a >= b
Le(a, b) == a # NaN /\ b # NaN /\ a <= b

NoGlueResult ==
    [returned |-> FALSE, success |-> FALSE, error |-> "none",
     generator |-> "none", parameter_sets |-> << >>,
     objective_values |-> << >>, behavioral_mask |-> << >>,
     likelihood_weights |-> [num |-> << >>, den |-> 1],
     n_behavioral |-> 0, bounds_95 |-> "None",
     best_params |-> << >>, best_value |-> NoneV]

\* GLUE.__init__
GLUEConstruct ==
    /\ active = "none"
    /\ glue_pc = "new"
    /\ \E b \in GlueBoundsChoices, n \in NSamplesChoices,
          th \in ThresholdChoices, mx \in BOOLEAN :
         /\ glue' = [bounds |-> b, n_params |-> Len(b), threshold |-> th,
                     n_samples |-> n, maximize |-> mx]
         /\ glue_pc' = IF n < 10 THEN "ctor_raised"
                       ELSE IF ~BoundsValid(b) THEN "ctor_raised"
                       ELSE "ready"
    /\ active' = "glue"
    /\ UNCHANGED <<glue_args, glue_res>>
    /\ UNCHANGED <<par_vars, dds_vars, pso_vars, sam_vars, met_vars, rng_vars, ext_vars>>

\* the grid value of a point of stratum k (0-based) of n over [lower, upper)
StratumValue(lower, upper, k, n) == lower + ((upper - lower) * k) \div n

\* latin_hypercube_sampling: the tables it can return; every column holds
\* one point of each of the n_samples strata, in some order
latin_hypercube_sampling(b, n_samples) ==
    LET cols == 1 .. Len(b)
        rows == 1 .. n_samples
        Col(d) ==
            {c \in [rows -> Lower(b, d) .. (Upper(b, d) - 1)] :
                \A v \in Lower(b, d) .. (Upper(b, d) - 1) :
                    Cardinality({i \in rows : c[i] = v}) =
                    Cardinality({k \in 0 .. (n_samples - 1) :
                        StratumValue(Lower(b, d), Upper(b, d), k, n_samples) = v})}
        Columns == {cs \in [cols -> UNION {Col(d) : d \in cols}] :
                       \A d \in cols : cs[d] \in Col(d)}
    IN  {[i \in rows |-> [d \in cols |-> cs[d][i]]] : cs \in Columns}

\* the else branch of _generate_samples: np.random.uniform per column
GlueUniform(b, n_samples) ==
    [1 .. n_samples -> RandomInitial(b)]

\* GLUE._generate_samples: the function that builds the table, and the
\* tables it can return
GlueGenerator(method) == IF method = "lhs" THEN "lhs" ELSE "uniform"
_generate_samples(method, b, n_samples) ==
    IF GlueGenerator(method) = "lhs"
    THEN latin_hypercube_sampling(b, n_samples)
    ELSE GlueUniform(b, n_samples)

\* GLUE._identify_behavioral
_identify_behavioral(values, threshold, maximize) ==
    [i \in DOMAIN values |->
        IF maximize THEN Ge(values[i], threshold) ELSE Le(values[i], threshold)]

\* np.exp on the grid, in thousandths
Exp(d) ==
    CASE d = -1 -> 368
      [] d = 0 -> 1000
      [] d = 1 -> 2718

\* a - b on floats
Minus(a, b) == IF a = NaN \/ b = NaN THEN NaN ELSE a - b

\* weights.sum(): NaN if any entry is NaN
WeightSum(w) ==
    IF \E i \in DOMAIN w : w[i] = NaN THEN NaN ELSE SumSeq(w)

\* the weights of _calculate_likelihoods before normalisation
RawWeights(values, mask, threshold, maximize, method) ==
    LET diff(i) == IF maximize THEN Minus(values[i], threshold)
                   ELSE Minus(threshold, values[i])
    IN  [i \in DOMAIN values |->
            CASE method = "threshold" -> IF mask[i] THEN 1 ELSE 0
              [] method = "linear" -> IF Lt(diff(i), 0) THEN 0 ELSE diff(i)
              [] method = "exponential" ->
                     IF ~mask[i] THEN 0 ELSE Exp(diff(i))
              [] OTHER -> 0]

\* GLUE._calculate_likelihoods: weight i is num[i] / den
Normalize(w) ==
    IF Gt(WeightSum(w), 0) THEN [num |-> w, den |-> WeightSum(w)]
    ELSE [num |-> w, den |-> 1]

_calculate_likelihoods(values, mask, threshold, maximize, method) ==
    Normalize(RawWeights(values, mask, threshold, maximize, method))

\* the objective callable as a function of the sampled vector
GlueObjectives(b) == [RandomInitial(b) -> ObjOutcomes]

\* the dict of the except branch of run
GLUEFailure(e) ==
    [NoGlueResult EXCEPT !.returned = TRUE, !.error = e]

\* GLUE.run
GLUERun ==
    /\ glue_pc = "ready"
    /\ \E method \in SamplingMethods, lf \in LikelihoodFunctions,
          f \in GlueObjectives(glue.bounds) :
             \E table \in _generate_samples(method, glue.bounds, glue.n_samples) :
               LET rows == 1 .. glue.n_samples
                   values == [i \in rows |-> f[table[i]].value]
                   mask == _identify_behavioral(values, glue.threshold, glue.maximize)
                   n_behavioral == Cardinality({i \in rows : mask[i]})
                   best_idx == ArgBest(values, TRUE)
               IN  /\ glue_args' = [sampling_method |-> method,
                                    likelihood_function |-> lf]
                   /\ IF \E i \in rows : f[table[i]].raises
                      THEN /\ glue_pc' = "failed"
                           /\ glue_res' = GLUEFailure("objective")
                      ELSE /\ glue_pc' = "done"
                           /\ glue_res' =
                                [returned |-> TRUE, success |-> TRUE,
                                 error |-> "none", generator |-> GlueGenerator(method),
                                 parameter_sets |-> table,
                                 objective_values |-> values,
                                 behavioral_mask |-> mask,
                                 likelihood_weights |->
                                     _calculate_likelihoods(values, mask,
                                         glue.threshold, glue.maximize, lf),
                                 n_behavioral |-> n_behavioral,
                                 bounds_95 |-> IF n_behavioral = 0 THEN "None"
                                               ELSE "percentiles",
                                 best_params |-> table[best_idx],
                                 best_value |-> values[best_idx]]
    /\ UNCHANGED <<active, glue>>
    /\ UNCHANGED <<par_vars, dds_vars, pso_vars, sam_vars, met_vars, rng_vars, ext_vars>>

GLUEInit ==
    /\ glue_pc = "new"
    /\ glue = [bounds |-> << >>, n_params |-> 0, threshold |-> 0,
               n_samples |-> 0, maximize |-> TRUE]
    /\ glue_args = [sampling_method |-> "none", likelihood_function |-> "none"]
    /\ glue_res = NoGlueResult

GLUENext ==
    \/ GLUEConstruct
    \/ GLUERun

\* ==================================================== ParameterSampler ====
\* the method argument of the constructor
SamplerMethodArgs ==
    {"lhs", "LHS", "sobol", "halton", "random", "grid", "stratified", "uniform"}

\* method.lower()
LowerCase(m) == IF m = "LHS" THEN "lhs" ELSE m

\* the n_strata_per_dim keyword of sample; 5 when it is not given
StrataChoices == {2, 5}

RECURSIVE Pow(_, _)
Pow(m, k) == IF k = 0 THEN 1 ELSE m * Pow(m, k - 1)

\* int(np.ceil(n_samples ** (1 / n_params)))
RECURSIVE CeilRootFrom(_, _, _)
CeilRootFrom(m, n_samples, n_params) ==
    IF Pow(m, n_params) >= n_samples THEN m
    ELSE CeilRootFrom(m + 1, n_samples, n_params)
CeilRoot(n_samples, n_params) == CeilRootFrom(1, n_samples, n_params)

\* the row count of the table of uniform_grid_sampling: the full mesh
uniform_grid_sampling(n_params, n_samples_per_dim) ==
    Pow(n_samples_per_dim, n_params)

\* the inner loop of stratified_sampling: "for _ in range(samples_per_stratum)"
\* with its break; len is len(samples)
RECURSIVE StratumInner(_, _, _)
StratumInner(left, len, n_samples) ==
    IF left = 0 THEN len
    ELSE IF len + 1 >= n_samples THEN len + 1
    ELSE StratumInner(left - 1, len + 1, n_samples)

\* the outer loop: "for stratum_idx in strata_indices" with its break
RECURSIVE StratumOuter(_, _, _, _)
StratumOuter(strata_left, per_stratum, len, n_samples) ==
    IF strata_left = 0 THEN len
    ELSE LET len1 == StratumInner(per_stratum, len, n_samples)
         IN  IF len1 >= n_samples THEN len1
             ELSE StratumOuter(strata_left - 1, per_stratum, len1, n_samples)

\* the row count of the table of stratified_sampling: len(samples[:n_samples])
stratified_sampling(n_params, n_samples, n_strata_per_dim) ==
    LET n_strata_total == Pow(n_strata_per_dim, n_params)
        samples_per_stratum == Max(1, n_samples \div n_strata_total)
    IN  Min(StratumOuter(n_strata_total, samples_per_stratum, 0, n_samples),
            n_samples)

\* ParameterSampler.__init__
SamplerConstruct ==
    /\ active = "none"
    /\ sam_pc = "new"
    /\ \E b \in BoundsChoices, m \in SamplerMethodArgs :
         /\ sam' = [bounds |-> b, n_params |-> Len(b), method |-> LowerCase(m)]
         /\ sam_pc' = IF ~BoundsValid(b) THEN "ctor_raised" ELSE "ready"
    /\ active' = "sam"
    /\ UNCHANGED <<sam_n, sam_out>>
    /\ UNCHANGED <<par_vars, dds_vars, pso_vars, glue_vars, met_vars, rng_vars, ext_vars>>

\* ParameterSampler.sample: the shape of the table it returns
SamplerSample ==
    /\ sam_pc \in {"ready", "sampled", "raised"}
    /\ \E n_samples \in 1 .. MaxSamples, n_strata \in StrataChoices :
         /\ sam_n' = [n_samples |-> n_samples, n_strata_per_dim |-> n_strata]
         /\ IF sam.method \in {"lhs", "sobol", "random", "halton"}
            THEN /\ sam_out' = [rows |-> n_samples, cols |-> sam.n_params]
                 /\ sam_pc' = "sampled"
            ELSE IF sam.method = "grid"
            THEN /\ sam_out' = [rows |-> uniform_grid_sampling(sam.n_params,
                                             CeilRoot(n_samples, sam.n_params)),
                                cols |-> sam.n_params]
                 /\ sam_pc' = "sampled"
            ELSE IF sam.method = "stratified"
            THEN /\ sam_out' = [rows |-> stratified_sampling(sam.n_params,
                                             n_samples, n_strata),
                                cols |-> sam.n_params]
                 /\ sam_pc' = "sampled"
            ELSE \* raise ValueError(f"Unknown sampling method: ...")
                 /\ sam_out' = [rows |-> 0, cols |-> 0]
                 /\ sam_pc' = "raised"
    /\ UNCHANGED <<active, sam>>
    /\ UNCHANGED <<par_vars, dds_vars, pso_vars, glue_vars, met_vars, rng_vars, ext_vars>>

SamInit ==
    /\ sam_pc = "new"
    /\ sam = [bounds |-> << >>, n_params |-> 0, method |-> "none"]
    /\ sam_n = [n_samples |-> 0, n_strata_per_dim |-> 0]
    /\ sam_out = [rows |-> 0, cols |-> 0]

SamNext ==
    \/ SamplerConstruct
    \/ SamplerSample

\* ================================================= objective functions ====
\* values of the observed and simulated series
MetValues == {-1, 0, 1, NaN}

\* the handle_nan argument
HandleNanModes == {"ignore", "raise", "propagate"}

\* the series handed to a metric
Series == UNION {[1 .. n -> MetValues] : n \in 0 .. MaxLen}

\* np.any(np.isnan(q))
HasNaN(q) == \E i \in DOMAIN q : q[i] = NaN

\* q[mask]
Masked(q, mask) ==
    LET F[i \in 0 .. Len(q)] ==
            IF i = 0 THEN << >>
            ELSE IF mask[i] THEN Append(F[i - 1], q[i]) ELSE F[i - 1]
    IN  F[Len(q)]

\* _validate_inputs: raises, or the pair of arrays the metric works on
_validate_inputs(observed, simulated, handle_nan) ==
    IF Len(observed) # Len(simulated)
    THEN [raises |-> TRUE, observed |-> << >>, simulated |-> << >>]
    ELSE IF handle_nan = "raise"
    THEN [raises |-> HasNaN(observed) \/ HasNaN(simulated),
          observed |-> observed, simulated |-> simulated]
    ELSE IF handle_nan = "ignore"
    THEN LET mask == [i \in DOMAIN observed |->
                         ~(observed[i] = NaN \/ simulated[i] = NaN)]
         IN  [raises |-> FALSE, observed |-> Masked(observed, mask),
              simulated |-> Masked(simulated, mask)]
    ELSE [raises |-> FALSE, observed |-> observed, simulated |-> simulated]

\* a value returned by a metric: the fraction num/den, or its square root
\* when root holds; NaN; or the exception of _validate_inputs
Raised == [raises |-> TRUE, nan |-> FALSE, num |-> 0, den |-> 1, root |-> FALSE]
NaNQ == [raises |-> FALSE, nan |-> TRUE, num |-> 0, den |-> 1, root |-> FALSE]
Q(a, b) == [raises |-> FALSE, nan |-> FALSE, num |-> a, den |-> b, root |-> FALSE]
SqrtQ(a, b) == [raises |-> FALSE, nan |-> FALSE, num |-> a, den |-> b, root |-> TRUE]

Abs(x) == IF x < 0 THEN -x ELSE x

\* np.sum over the arrays
SumSq(o) == SumSeq([i \in DOMAIN o |-> o[i] * o[i]])
SumProd(o, s) == SumSeq([i \in DOMAIN o |-> o[i] * s[i]])
SumSqDiff(o, s) == SumSeq([i \in DOMAIN o |-> (o[i] - s[i]) * (o[i] - s[i])])
SumAbsDiff(o, s) == SumSeq([i \in DOMAIN o |-> Abs(o[i] - s[i])])

\* n * np.sum((q - np.mean(q)) ** 2), and n * the co-moment of o and s
VarN(q) == Len(q) * SumSq(q) - SumSeq(q) * SumSeq(q)
CovN(o, s) == Len(o) * SumProd(o, s) - SumSeq(o) * SumSeq(s)

\* nse
nse_ratio(observed, simulated, handle_nan) ==
    LET v == _validate_inputs(observed, simulated, handle_nan)
        o == v.observed
        s == v.simulated
    IN  IF v.raises THEN Raised
        ELSE IF Len(o) = 0 THEN NaNQ
        ELSE IF HasNaN(o) \/ HasNaN(s) THEN NaNQ
        ELSE IF VarN(o) = 0 THEN NaNQ
        ELSE Q(Len(o) * SumSqDiff(o, s), VarN(o))
nse(observed, simulated, handle_nan) ==
    LET v == _validate_inputs(observed, simulated, handle_nan)
        o == v.observed
        s == v.simulated
    IN  IF v.raises THEN Raised
        ELSE IF Len(o) = 0 THEN NaNQ
        ELSE IF HasNaN(o) \/ HasNaN(s) THEN NaNQ
        ELSE IF VarN(o) = 0 THEN NaNQ
        ELSE Q(VarN(o) - Len(o) * SumSqDiff(o, s), VarN(o))

\* np.corrcoef(o, s)[0, 1]: its sign and its square; NaN when a series has
\* no variance
Corr(o, s) ==
    IF VarN(o) * VarN(s) = 0
    THEN [nan |-> TRUE, sign |-> 0, num |-> 0, den |-> 1]
    ELSE [nan |-> FALSE,
          sign |-> IF CovN(o, s) > 0 THEN 1 ELSE IF CovN(o, s) < 0 THEN -1 ELSE 0,
          num |-> CovN(o, s) * CovN(o, s), den |-> VarN(o) * VarN(s)]

\* kge with the default weights: KGE = 1 - sqrt((r-1)^2 + (alpha-1)^2 +
\* (beta-1)^2), kept as its three components; alpha is the square root of
\* alpha2
kge(observed, simulated, handle_nan) ==
    LET v == _validate_inputs(observed, simulated, handle_nan)
        o == v.observed
        s == v.simulated
        none == [raises |-> FALSE, nan |-> TRUE, r |-> Corr(<<0>>, <<0>>),
                 alpha2 |-> Q(0, 1), beta |-> Q(0, 1)]
    IN  IF v.raises THEN [none EXCEPT !.raises = TRUE, !.nan = FALSE]
        ELSE IF Len(o) = 0 THEN none
        ELSE IF HasNaN(o) \/ HasNaN(s) THEN none
        ELSE IF VarN(o) = 0 \/ SumSeq(o) = 0 \/ Corr(o, s).nan THEN none
        ELSE [raises |-> FALSE, nan |-> FALSE, r |-> Corr(o, s),
              alpha2 |-> Q(VarN(s), VarN(o)),
              beta |-> Q(SumSeq(s), SumSeq(o))]

\* rmse
rmse(observed, simulated, handle_nan) ==
    LET v == _validate_inputs(observed, simulated, handle_nan)
        o == v.observed
        s == v.simulated
    IN  IF v.raises THEN Raised
        ELSE IF Len(o) = 0 THEN NaNQ
        ELSE IF HasNaN(o) \/ HasNaN(s) THEN NaNQ
        ELSE SqrtQ(SumSqDiff(o, s), Len(o))

\* pbias
pbias(observed, simulated, handle_nan) ==
    LET v == _validate_inputs(observed, simulated, handle_nan)
        o == v.observed
        s == v.simulated
    IN  IF v.raises THEN Raised
        ELSE IF Len(o) = 0 THEN NaNQ
        ELSE IF HasNaN(o) \/ HasNaN(s) THEN NaNQ
        ELSE IF SumSeq(o) = 0 THEN NaNQ
        ELSE Q(100 * (SumSeq(s) - SumSeq(o)), SumSeq(o))

\* r_squared
r_squared(observed, simulated, handle_nan) ==
    LET v == _validate_inputs(observed, simulated, handle_nan)
        o == v.observed
        s == v.simulated
    IN  IF v.raises THEN Raised
        ELSE IF Len(o) = 0 THEN NaNQ
        ELSE IF HasNaN(o) \/ HasNaN(s) THEN NaNQ
        ELSE IF Corr(o, s).nan THEN NaNQ
        ELSE Q(Corr(o, s).num, Corr(o, s).den)

\* mae
mae(observed, simulated, handle_nan) ==
    LET v == _validate_inputs(observed, simulated, handle_nan)
        o == v.observed
        s == v.simulated
    IN  IF v.raises THEN Raised
        ELSE IF Len(o) = 0 THEN NaNQ
        ELSE IF HasNaN(o) \/ HasNaN(s) THEN NaNQ
        ELSE Q(SumAbsDiff(o, s), Len(o))

NoScores ==
    [scored |-> FALSE, nse |-> NaNQ, kge |-> kge(<< >>, << >>, "ignore"),
     rmse |-> NaNQ, pbias |-> NaNQ, r2 |-> NaNQ, mae |-> NaNQ]

\* the driver scores one pair of series with each of the six metrics
MetricScore ==
    /\ active = "none"
    /\ \E observed \in Series, simulated \in Series, h \in HandleNanModes :
         /\ met_in' = [observed |-> observed, simulated |-> simulated,
                       handle_nan |-> h]
         /\ met_out' = [scored |-> TRUE,
                        nse |-> nse(observed, simulated, h),
                        kge |-> kge(observed, simulated, h),
                        rmse |-> rmse(observed, simulated, h),
                        pbias |-> pbias(observed, simulated, h),
                        r2 |-> r_squared(observed, simulated, h),
                        mae |-> mae(observed, simulated, h)]
    /\ active' = "met"
    /\ UNCHANGED <<par_vars, dds_vars, pso_vars, glue_vars, sam_vars, rng_vars, ext_vars>>

MetInit ==
    /\ met_in = [observed |-> << >>, simulated |-> << >>, handle_nan |-> "ignore"]
    /\ met_out = NoScores

MetNext == MetricScore

\* ======================= the reflection loop of _perturb_parameters ====
\* The loop "while new_value < lower or new_value > upper" of
\* DDS._perturb_parameters, one pass per step, for one component.

\* valid (lower, upper) pairs and the components inside them
ReflectBounds == {b \in (-1 .. 1) \X (0 .. 2) : b[1] < b[2]}

NoReflect == [pc |-> "idle", lower |-> 0, upper |-> 0, start |-> 0,
              new_value |-> 0, passes |-> 0]

\* new_value = params[i] + perturbation
ReflectEnter ==
    /\ active = "none"
    /\ \E b \in ReflectBounds, perturbation \in -MaxPert .. MaxPert :
         \E start \in b[1] .. b[2] :
             refl' = [pc |-> "while", lower |-> b[1], upper |-> b[2],
                      start |-> start, new_value |-> start + perturbation,
                      passes |-> 0]
    /\ active' = "refl"
    /\ UNCHANGED <<par_vars, dds_vars, pso_vars, glue_vars, sam_vars, met_vars,
                   rng_vars, ckpt, batch>>

\* the loop condition holds: one pass of the body
ReflectPass ==
    /\ refl.pc = "while"
    /\ refl.new_value < refl.lower \/ refl.new_value > refl.upper
    /\ refl' = [refl EXCEPT
                   !.new_value = ReflectStep(refl.new_value, refl.lower, refl.upper),
                   !.passes = @ + 1]
    /\ UNCHANGED <<active, par_vars, dds_vars, pso_vars, glue_vars, sam_vars,
                   met_vars, rng_vars, ckpt, batch>>

\* the loop condition fails: new_params[i] = new_value
ReflectExit ==
    /\ refl.pc = "while"
    /\ ~(refl.new_value < refl.lower \/ refl.new_value > refl.upper)
    /\ refl' = [refl EXCEPT !.pc = "exit"]
    /\ UNCHANGED <<active, par_vars, dds_vars, pso_vars, glue_vars, sam_vars,
                   met_vars, rng_vars, ckpt, batch>>

ReflectInit == refl = NoReflect

ReflectNext ==
    \/ ReflectEnter
    \/ ReflectPass
    \/ ReflectExit

\* ============================================ checkpoints of DDS ====
\* DDS.optimize with a checkpoint_dir argument and an objective that never
\* raises. Of the history only what json.dump depends on is kept: the
\* iteration numbers and the type of every n_perturbed_params entry.
\* _update_history(0, ..., 0) appends the int literal 0, the loop appends
\* perturb_mask.sum(), a numpy int64.

NoCheckpointRun ==
    [pc |-> "idle", n_iterations |-> 0, checkpoint_dir |-> FALSE, iteration |-> 0,
     history |-> [iteration |-> << >>, n_perturbed_params |-> << >>],
     files |-> {}, result |-> [returned |-> FALSE, success |-> FALSE,
                               n_evaluations |-> 0]]

\* json.dump accepts int, float, str, list and dict; a numpy int64 raises
\* TypeError
JsonSerializable(h) ==
    \A k \in DOMAIN h.n_perturbed_params : h.n_perturbed_params[k] = "int"

\* DDS._save_checkpoint: the file is opened for writing, then json.dump
\* streams the checkpoint into it
_save_checkpoint(files, h, iteration) ==
    IF JsonSerializable(h)
    THEN [raises |-> FALSE,
          files |-> files \cup {[iteration |-> iteration, complete |-> TRUE,
                                 history |-> h]}]
    ELSE [raises |-> TRUE,
          files |-> files \cup {[iteration |-> iteration, complete |-> FALSE,
                                 history |-> h]}]

\* optimize up to the head of the main loop
CheckpointRunStart ==
    /\ active = "none"
    /\ \E n_iterations \in 1 .. MaxCkptIter, checkpoint_dir \in BOOLEAN :
         ckpt' = [NoCheckpointRun EXCEPT
                     !.pc = "loop", !.n_iterations = n_iterations,
                     !.checkpoint_dir = checkpoint_dir, !.iteration = 1,
                     !.history = [iteration |-> <<0>>,
                                  n_perturbed_params |-> <<"int">>]]
    /\ active' = "ckpt"
    /\ UNCHANGED <<par_vars, dds_vars, pso_vars, glue_vars, sam_vars, met_vars,
                   rng_vars, refl, batch>>

\* one pass of the main loop
CheckpointRunIterate ==
    /\ ckpt.pc = "loop"
    /\ ckpt.iteration <= ckpt.n_iterations
    /\ LET h == [iteration |-> Append(ckpt.history.iteration, ckpt.iteration),
                 n_perturbed_params |->
                     Append(ckpt.history.n_perturbed_params, "int64")]
           saved == _save_checkpoint(ckpt.files, h, ckpt.iteration)
       IN  IF ckpt.checkpoint_dir /\ ckpt.iteration % 10 = 0
           THEN IF saved.raises
                THEN ckpt' = [ckpt EXCEPT
                         !.pc = "failed", !.history = h, !.files = saved.files,
                         !.result = [returned |-> TRUE, success |-> FALSE,
                                     n_evaluations |-> Len(h.iteration)]]
                ELSE ckpt' = [ckpt EXCEPT
                         !.history = h, !.files = saved.files,
                         !.iteration = @ + 1]
           ELSE ckpt' = [ckpt EXCEPT !.history = h, !.iteration = @ + 1]
    /\ UNCHANGED <<active, par_vars, dds_vars, pso_vars, glue_vars, sam_vars,
                   met_vars, rng_vars, refl, batch>>

\* the loop is exhausted: the success dict
CheckpointRunReturn ==
    /\ ckpt.pc = "loop"
    /\ ckpt.iteration > ckpt.n_iterations
    /\ ckpt' = [ckpt EXCEPT
                   !.pc = "done",
                   !.result = [returned |-> TRUE, success |-> TRUE,
                               n_evaluations |-> ckpt.n_iterations]]
    /\ UNCHANGED <<active, par_vars, dds_vars, pso_vars, glue_vars, sam_vars,
                   met_vars, rng_vars, refl, batch>>

CheckpointInit == ckpt = NoCheckpointRun

CheckpointNext ==
    \/ CheckpointRunStart
    \/ CheckpointRunIterate
    \/ CheckpointRunReturn

\* ======================================================== BatchRunner ====
\* A parameter-set array is kept as its number of rows, a batch name as
\* [given, id]: f"batch_{i}" is [given |-> FALSE, id |-> i], the j-th name
\* of a supplied list is [given |-> TRUE, id |-> j]. batch_names = None is
\* [given |-> FALSE, names |-> << >>].

NoBatchRunner ==
    [pc |-> "new", batch_results |-> << >>, parameter_sets_list |-> << >>,
     batch_names |-> [given |-> FALSE, names |-> << >>], returned |-> << >>,
     calls |-> 0]

\* the lists of arrays and the batch_names arguments a caller passes
ParameterSetsLists ==
    UNION {[1 .. n -> 1 .. MaxRuns] : n \in 0 .. MaxBatches}
BatchNamesChoices ==
    {[given |-> FALSE, names |-> << >>]}
        \cup {[given |-> TRUE,
               names |-> [j \in 1 .. n |-> [given |-> TRUE, id |-> j - 1]]] :
                  n \in 0 .. (MaxBatches + 1)}

\* [f"batch_{i}" for i in range(n_batches)]
DefaultBatchNames(n_batches) ==
    [j \in 1 .. n_batches |-> [given |-> FALSE, id |-> j - 1]]

\* enumerate(zip(parameter_sets_list, batch_names)): stops at the shorter list
ZipBatches(parameter_sets_list, names) ==
    [j \in 1 .. Min(Len(parameter_sets_list), Len(names)) |->
        [batch_name |-> names[j], batch_index |-> j - 1,
         n_runs |-> parameter_sets_list[j]]]

\* BatchRunner.__init__
BatchConstruct ==
    /\ active = "none"
    /\ batch.pc = "new"
    /\ batch' = [batch EXCEPT !.pc = "idle", !.batch_results = << >>]
    /\ active' = "batch"
    /\ UNCHANGED <<par_vars, dds_vars, pso_vars, glue_vars, sam_vars, met_vars,
                   rng_vars, refl, ckpt>>

\* BatchRunner.run_batch, every run_parallel call returning its results
RunBatch ==
    /\ batch.pc \in {"idle", "returned"}
    /\ batch.calls < MaxBatchCalls
    /\ \E parameter_sets_list \in ParameterSetsLists,
          batch_names \in BatchNamesChoices :
         LET n_batches == Len(parameter_sets_list)
             names == IF ~batch_names.given THEN DefaultBatchNames(n_batches)
                      ELSE batch_names.names
             batch_results == batch.batch_results
                                  \o ZipBatches(parameter_sets_list, names)
         IN  batch' = [pc |-> "returned", batch_results |-> batch_results,
                       parameter_sets_list |-> parameter_sets_list,
                       batch_names |-> batch_names,
                       returned |-> batch_results,
                       calls |-> batch.calls + 1]
    /\ UNCHANGED <<active, par_vars, dds_vars, pso_vars, glue_vars, sam_vars,
                   met_vars, rng_vars, refl, ckpt>>

BatchInit == batch = NoBatchRunner

BatchNext ==
    \/ BatchConstruct
    \/ RunBatch

\* ================================== np.random and two DDS instances ====
\* Two DDS instances are built with the same bounds, settings and
\* deterministic objective. optimize takes every random number from the
\* generator of the process, np.random, so what it returns is a function of
\* the state of that generator on entry: twin[x].entry.
Instances == {"a", "b"}

\* the seed argument; NoneV when it is not given
SeedChoices == {1, 2}

NoEntry == [seed |-> NoneV, pos |-> -1]

\* np.random.seed(seed) when seed is not None
SeedGlobal(state, seed) ==
    IF seed # NoneV THEN [seed |-> seed, pos |-> 0] ELSE state

\* DDS.__init__ of instance x
TwinConstruct(x) ==
    /\ active \in {"none", "twin"}
    /\ twin[x].pc = "new"
    /\ \E seed \in SeedChoices \cup {NoneV} :
         /\ twin' = [twin EXCEPT ![x] = [pc |-> "ready", seed |-> seed,
                                         entry |-> NoEntry]]
         /\ rng' = SeedGlobal(rng, seed)
    /\ active' = "twin"
    /\ UNCHANGED <<par_vars, dds_vars, pso_vars, glue_vars, sam_vars, met_vars, ext_vars>>

\* DDS.optimize of instance x, with no initial_params: _random_initial, the
\* masks and the perturbations take draws numbers from np.random
TwinOptimize(x) ==
    /\ twin[x].pc = "ready"
    /\ \E draws \in 1 .. MaxDraws :
         /\ rng.pos + draws <= MaxStream
         /\ twin' = [twin EXCEPT ![x].pc = "done", ![x].entry = rng]
         /\ rng' = [rng EXCEPT !.pos = rng.pos + draws]
    /\ UNCHANGED active
    /\ UNCHANGED <<par_vars, dds_vars, pso_vars, glue_vars, sam_vars, met_vars, ext_vars>>

\* another seeded algorithm or sampler is constructed in the process
OtherSeeded ==
    /\ active \in {"none", "twin"}
    /\ \E seed \in SeedChoices : rng' = SeedGlobal(rng, seed)
    /\ active' = "twin"
    /\ UNCHANGED twin
    /\ UNCHANGED <<par_vars, dds_vars, pso_vars, glue_vars, sam_vars, met_vars, ext_vars>>

TwinInit ==
    /\ rng = [seed |-> NoneV, pos |-> 0]
    /\ twin = [x \in Instances |-> [pc |-> "new", seed |-> NoneV, entry |-> NoEntry]]

TwinNext ==
    \/ \E x \in Instances : TwinConstruct(x)
    \/ \E x \in Instances : TwinOptimize(x)
    \/ OtherSeeded

\* ======================================================== specification ===
Init ==
    /\ active = "none"
    /\ ParInit
    /\ DDSInit
    /\ PSOInit
    /\ GLUEInit
    /\ SamInit
    /\ MetInit
    /\ ReflectInit
    /\ CheckpointInit
    /\ BatchInit
    /\ TwinInit

Next ==
    \/ ParNext
    \/ DDSNext
    \/ DDSOptimizeAgain
    \/ PSONext
    \/ GLUENext
    \/ SamNext
    \/ MetNext
    \/ ReflectNext
    \/ CheckpointNext
    \/ BatchNext
    \/ TwinNext

Spec == Init /\ [][Next]_vars

\* the driver uses the parallel engine only
SpecPar == Init /\ [][ParNext]_vars

\* the driver uses DDS only
SpecDDS == Init /\ [][DDSNext]_vars

\* the driver uses PSO only
SpecPSO == Init /\ [][PSONext]_vars

\* the driver uses one of the two search algorithms
OptNext ==
    \/ DDSNext
    \/ PSONext

SpecOpt == Init /\ [][OptNext]_vars

\* the driver builds one small DDS and calls optimize on it repeatedly
RerunNext ==
    \/ DDSConstructOne
    \/ DDSOptimizeStart
    \/ DDSOptimizeAgain
    \/ DDSIterate
    \/ DDSReturn

SpecRerun == Init /\ [][RerunNext]_vars

\* the driver uses GLUE only
SpecGLUE == Init /\ [][GLUENext]_vars

\* the driver uses the parameter sampler only
SpecSam == Init /\ [][SamNext]_vars

\* the driver runs the reflection loop of one component only
SpecReflect == Init /\ [][ReflectNext]_vars

\* the driver runs one DDS with or without a checkpoint directory
SpecCheckpoint == Init /\ [][CheckpointNext]_vars

\* the driver uses one BatchRunner only
SpecBatch == Init /\ [][BatchNext]_vars

\* the driver uses the metrics only
SpecMet == Init /\ [][MetNext]_vars

\* the driver builds and runs two DDS instances
SpecTwin == Init /\ [][TwinNext]_vars

\* the driver constructs one object and does nothing else
CtorNext ==
    \/ DDSConstruct
    \/ PSOConstruct
    \/ GLUEConstruct
    \/ SamplerConstruct

SpecCtor == Init /\ [][CtorNext]_vars

\* ================================================================ claims ==
Collected == {i \in Tasks : status[i] = "collected"}

\* C1: when run_parallel returns, the list has one slot per parameter vector
\* and slot i holds a non-null record whose run_id is i, whatever the order
\* in which the tasks completed.
C1_ResultsInTaskOrder ==
    par_pc = "returned" =>
        /\ DOMAIN returned = 0 .. (n_runs - 1)
        /\ \A i \in DOMAIN returned : Truthy(returned[i]) /\ returned[i].run_id = i

\* two tasks were collected in the reverse of their submission order
C1_Witness ==
    /\ par_pc = "returned"
    /\ n_runs = 2
    /\ order = <<1, 0>>

\* C2: when run_parallel returns, every task whose execution failed has a
\* success=false record at its index and every other index holds the success
\* record its own worker produced.
C2_FailuresIsolated ==
    par_pc = "returned" =>
        \A i \in Tasks :
            /\ outcome[i].kind # "ok" => ~returned[i].success
            /\ outcome[i].kind = "ok" => returned[i] = outcome[i]

\* C3: the success count shown after the k-th completion is the number of
\* already-completed tasks whose record has success=true, and the rate is
\* that count over k.
C3_RunningSuccessCount ==
    (par_pc = "running" /\ show_progress /\ completed > 0) =>
        LET n_ok == Cardinality({i \in Collected : results[i].success})
        IN  /\ reported.completed = Cardinality(Collected)
            /\ reported.success = n_ok
            /\ reported.rate = RateTenths(n_ok, completed)

\* C4: the effective worker count is max(1, cores - 1) when none is
\* requested, and for every requested count lies in 1 .. cores.
C4_WorkerCount ==
    par_pc # "new" =>
        /\ ~requested.given => n_workers = Max(1, cores - 1)
        /\ requested.given => (1 <= n_workers /\ n_workers <= cores)

C6_PSOWithinBounds ==
    /\ pso_calls > 0 => InBounds(pso_last_arg, pso.bounds)
    /\ (pso_result.returned /\ pso_result.best_params # << >>) =>
           InBounds(pso_result.best_params, pso.bounds)

\* a finished run in which a particle sits on a bound with a velocity larger
\* than the width of that bound (its move was clamped)
C6_Witness ==
    /\ pso_pc = "done"
    /\ \E i \in 1 .. pso.n_particles, d \in 1 .. pso.n_params :
           /\ positions[i][d] = Lower(pso.bounds, d)
           /\ -velocities[i][d] > Upper(pso.bounds, d) - Lower(pso.bounds, d)

\* C7: after a successful DDS.optimize on a fresh instance each history list
\* has n_iterations + 1 entries and the iteration indices are 0..n_iterations.
C7_DDSHistoryLength ==
    dds_pc = "done" =>
        LET h == dds_result.history
            n == dds.n_iterations + 1
        IN  /\ Len(h.iteration) = n
            /\ Len(h.objective_value) = n
            /\ Len(h.best_value) = n
            /\ Len(h.n_perturbed_params) = n
            /\ Len(h.parameters) = n
            /\ \A k \in 1 .. Len(h.iteration) : h.iteration[k] = k - 1

\* a finished run in which some iteration did not improve on the incumbent
C7_Witness ==
    /\ dds_pc = "done"
    /\ dds.n_iterations = 2
    /\ \E k \in 2 .. Len(dds_result.history.iteration) :
           dds_result.history.objective_value[k] # dds_result.history.best_value[k]

\* C8: the n_evaluations of a successful DDS.optimize is n_iterations + 1, the
\* number of objective calls made.
C8_DDSEvaluations ==
    dds_pc = "done" =>
        /\ dds_calls = dds.n_iterations + 1
        /\ dds_result.n_evaluations = dds.n_iterations + 1

\* C9: the n_evaluations of a successful PSO.optimize is
\* n_particles * (n_iterations + 1), the number of objective calls made.
C9_PSOEvaluations ==
    pso_pc = "done" =>
        /\ pso_calls = pso.n_particles * (pso.n_iterations + 1)
        /\ pso_result.n_evaluations = pso.n_particles * (pso.n_iterations + 1)

\* C10: when the objective callable raises during DDS.optimize or
\* PSO.optimize the call returns a result with success=false and an error,
\* whose best_params/best_value are the incumbent held just before the call
\* and whose history is the history recorded before it.
C10_FailureKeepsIncumbent ==
    [][ /\ (dds_pc # "failed" /\ dds_pc' = "failed"
               /\ dds_result'.error = "objective") =>
            /\ dds_result'.returned
            /\ ~dds_result'.success
            /\ dds_result'.best_params = dds_best.params
            /\ dds_result'.best_value = dds_best.value
            /\ dds_result'.history = dds_history
            /\ Len(dds_result'.history.iteration) = dds_calls
        /\ (pso_pc # "failed" /\ pso_pc' = "failed"
               /\ pso_result'.error = "objective") =>
            /\ pso_result'.returned
            /\ ~pso_result'.success
            /\ pso_result'.best_params = gbest.position
            /\ pso_result'.best_value = gbest.value
            /\ pso_result'.history = pso_history
            /\ Len(pso_result'.history.iteration) = pso_iter
      ]_vars

\* the objective raised in the second iteration of a DDS run that had
\* already replaced its starting vector
C10_Witness ==
    /\ dds_pc = "failed"
    /\ dds_result.error = "objective"
    /\ Len(dds_result.history.iteration) = 2
    /\ dds_result.best_value = 1
    /\ dds_result.best_params # dds_result.history.parameters[1]

\* the objective raised in the second iteration of a PSO run
C10_WitnessPSO ==
    /\ pso_pc = "failed"
    /\ pso_result.error = "objective"
    /\ Len(pso_result.history.iteration) = 1
    /\ pso_result.best_value = 1

\* C11: every result returned by DDS.optimize or PSO.optimize, on the success
\* and on the failure path alike, holds best_params, best_value,
\* n_evaluations, history, success and duration, and error when it failed.
C11_ResultFields ==
    /\ dds_result.returned =>
           /\ dds_result.duration
           /\ ~dds_result.success => dds_result.error # "none"
    /\ pso_result.returned =>
           /\ pso_result.duration
           /\ ~pso_result.success => pso_result.error # "none"

\* C12: DDS.optimize called with an initial vector of the wrong length or with
\* a component outside its bounds raises to the caller: it returns no result
\* and calls the objective zero times.
C12_InvalidInitialRaises ==
    [][(dds_pc = "ready" /\ dds_result'.error = "validate") =>
           /\ ~dds_result'.returned
           /\ dds_calls' = 0
      ]_vars

\* C13: GLUE.run called with a sampling-method name that is not supported
\* does not complete with success=true.
C13_UnsupportedMethodFails ==
    (glue_res.returned /\ glue_args.sampling_method \notin GlueSupportedMethods) =>
        ~glue_res.success

\* C14: once the swarm is seeded, the global best of PSO is NaN only if no
\* evaluated particle has a finite value.
C14_NaNNeverGlobalBest ==
    pso_pc \in {"loop", "done"} =>
        (gbest.value = NaN =>
            \A i \in 1 .. pso.n_particles :
                fitness[i] = NaN /\ pbest.fitness[i] = NaN)

\* C15: after a successful GLUE.run, under each likelihood policy and either
\* direction, every weight is non-negative, the weights sum to 1 when at
\* least one sample is behavioral, and all are zero when none is.
C15_LikelihoodWeights ==
    glue_pc = "done" =>
        LET w == glue_res.likelihood_weights
        IN  /\ \A i \in DOMAIN w.num : Ge(w.num[i], 0)
            /\ glue_res.n_behavioral >= 1 => WeightSum(w.num) = w.den
            /\ glue_res.n_behavioral = 0 => \A i \in DOMAIN w.num : w.num[i] = 0

\* C16: for each of the six sampling methods, valid bounds and n_samples >= 1,
\* the table returned by ParameterSampler.sample(n_samples) has n_samples rows
\* and len(bounds) columns.
C16_SampleShape ==
    sam_pc = "sampled" =>
        /\ sam_out.rows = sam_n.n_samples
        /\ sam_out.cols = Len(sam.bounds)

\* C17: a second optimize on the same DDS instance leaves the result the
\* first call returned unchanged, history included, and the history of the
\* second result holds only the n_iterations + 1 entries of the second run.
C17_SecondRunIsFresh ==
    /\ dds_first.returned => FirstResultNow = dds_first
    /\ (dds_runs = 2 /\ dds_pc = "done") =>
           Len(dds_result.history.iteration) = dds.n_iterations + 1

\* C18: two DDS instances built with the same seed, bounds, settings and
\* deterministic objective return the same best_params, best_value and
\* history, whatever the order in which they and other seeded objects are
\* constructed and run: both runs start from the same generator state.
C18_SameSeedSameResult ==
    (/\ twin["a"].pc = "done" /\ twin["b"].pc = "done"
     /\ twin["a"].seed # NoneV /\ twin["a"].seed = twin["b"].seed) =>
        twin["a"].entry = twin["b"].entry

\* some pair of the bounds has lower >= upper
HasBadPair(b) == \E i \in 1 .. Len(b) : b[i][1] >= b[i][2]

\* C19: constructing DDS, PSO, GLUE or ParameterSampler with a bound pair
\* lower >= upper, DDS with r outside (0, 1), DDS or PSO with
\* n_iterations < 1, PSO with n_particles < 2, or GLUE with n_samples < 10
\* raises at construction.
C19_InvalidConstructionRaises ==
    /\ (dds_pc # "new" /\ (HasBadPair(dds.bounds) \/ dds.r <= 0 \/ dds.r >= 10
                              \/ dds.n_iterations < 1)) =>
           dds_pc = "ctor_raised"
    /\ (pso_pc # "new" /\ (HasBadPair(pso.bounds) \/ pso.n_iterations < 1
                              \/ pso.n_particles < 2)) =>
           pso_pc = "ctor_raised"
    /\ (glue_pc # "new" /\ (HasBadPair(glue.bounds) \/ glue.n_samples < 10)) =>
           glue_pc = "ctor_raised"
    /\ (sam_pc # "new" /\ HasBadPair(sam.bounds)) => sam_pc = "ctor_raised"

\* a sampler was constructed with a pair lower = upper and nothing else wrong
C19_Witness ==
    /\ sam_pc = "ctor_raised"
    /\ sam.bounds = << <<1, 1>> >>

\* the metric value is exactly 0, exactly 1
IsZero(q) == ~q.raises /\ ~q.nan /\ q.num = 0
IsOne(q) == ~q.raises /\ ~q.nan /\ q.num = q.den
KgeIsOne(k) ==
    /\ ~k.raises /\ ~k.nan
    /\ k.r.sign = 1 /\ k.r.num = k.r.den
    /\ IsOne(k.alpha2)
    /\ IsOne(k.beta)

\* C20: for every non-empty observed sequence, scoring it against an
\* identical simulated sequence gives NSE = KGE = R2 = 1 and
\* RMSE = MAE = PBIAS = 0.
C20_PerfectScores ==
    (met_out.scored /\ Len(met_in.observed) >= 1
        /\ met_in.simulated = met_in.observed) =>
        /\ IsOne(met_out.nse) /\ KgeIsOne(met_out.kge) /\ IsOne(met_out.r2)
        /\ IsZero(met_out.rmse) /\ IsZero(met_out.mae) /\ IsZero(met_out.pbias)

\* C20 as amended: for every non-empty observed sequence without NaN, scored
\* against an identical simulated sequence, RMSE = MAE = 0; NSE = R2 = 1 when
\* the observed values are not all equal; KGE = 1 when moreover their sum is
\* not zero; PBIAS = 0 when their sum is not zero.
C20_PerfectScoresWhereDefined ==
    (met_out.scored /\ Len(met_in.observed) >= 1
        /\ ~HasNaN(met_in.observed)
        /\ met_in.simulated = met_in.observed) =>
        LET o == met_in.observed
            varies == \E i, j \in DOMAIN o : o[i] # o[j]
            sums == SumSeq(o) # 0
        IN  /\ IsZero(met_out.rmse) /\ IsZero(met_out.mae)
            /\ varies => (IsOne(met_out.nse) /\ IsOne(met_out.r2))
            /\ (varies /\ sums) => KgeIsOne(met_out.kge)
            /\ sums => IsZero(met_out.pbias)

\* a series that varies and sums to zero was scored against itself: NSE is 1
\* while KGE and PBIAS are undefined
C20_Witness ==
    /\ met_out.scored
    /\ met_in.observed = <<-1, 0, 1>>
    /\ met_in.simulated = met_in.observed
    /\ IsOne(met_out.nse)
    /\ met_out.kge.nan
    /\ met_out.pbias.nan

\* every recorded objective value of the history is finite
FiniteHistory(h) == \A k \in DOMAIN h.objective_value : h.objective_value[k] # NaN

\* v is the best of the first k raw objective values of h
BestOfPrefix(h, k, v, maximize) ==
    /\ \E j \in 1 .. k : h.objective_value[j] = v
    /\ \A j \in 1 .. k :
           IF maximize THEN h.objective_value[j] <= v ELSE h.objective_value[j] >= v

\* C21: in a DDS run with finite objective values, the best_value of history
\* entry k is the best of the raw objective values of entries 0..k, and the
\* incumbent is replaced only by a strictly better candidate.
C21_IncumbentIsBestSoFar ==
    [][(dds_pc' \in {"loop", "done", "failed"} /\ FiniteHistory(dds_history')) =>
           /\ \A k \in DOMAIN dds_history'.best_value :
                  BestOfPrefix(dds_history', k, dds_history'.best_value[k],
                               dds.maximize)
           /\ (dds_pc = "loop" /\ dds_best' # dds_best) =>
                  IF dds.maximize THEN dds_best'.value > dds_best.value
                  ELSE dds_best'.value < dds_best.value
      ]_vars

\* a finished run whose candidate tied with the start: the start was kept
C21_Witness ==
    /\ dds_pc = "done"
    /\ dds.n_iterations = 1
    /\ dds_history.objective_value = <<1, 1>>
    /\ dds_history.parameters[1] # dds_history.parameters[2]
    /\ dds_result.best_params = dds_history.parameters[1]

\* C22: in each DDS iteration the candidate is derived from the incumbent:
\* it differs from the incumbent in at most the n_perturbed selected
\* dimensions, and the incumbent stays as it was unless the candidate
\* replaces it.
C22_CandidateFromIncumbent ==
    [][(dds_pc = "loop"
          /\ Len(dds_history'.iteration) = Len(dds_history.iteration) + 1) =>
           LET k == Len(dds_history'.parameters)
               candidate == dds_history'.parameters[k]
               n_perturbed == dds_history'.n_perturbed_params[k]
           IN  /\ Cardinality({i \in 1 .. dds.n_params :
                       candidate[i] # dds_best.params[i]}) <= n_perturbed
               /\ dds_best'.params = dds_best.params
                      \/ dds_best'.params = candidate
      ]_vars

\* a finished two-parameter run: the first candidate moved both dimensions
\* and was rejected, the second perturbed one dimension of the start
C22_Witness ==
    /\ dds_pc = "done"
    /\ dds.n_params = 2
    /\ dds.n_iterations = 2
    /\ \A i \in 1 .. 2 : dds_history.parameters[2][i] # dds_history.parameters[1][i]
    /\ dds_history.best_value[2] # dds_history.objective_value[2]
    /\ dds_history.n_perturbed_params[3] = 1
    /\ dds_history.parameters[3] # dds_history.parameters[1]

\* C23: for every valid n_iterations >= 1 the first iteration perturbs every
\* dimension: n_perturbed_params of history entry 1 equals the number of
\* parameters.
C23_FirstIterationPerturbsAll ==
    Len(dds_history.n_perturbed_params) >= 2 =>
        dds_history.n_perturbed_params[2] = dds.n_params

\* how far the component of the reflection loop lies outside its bounds
Outside(f) == Max(Max(f.lower - f.new_value, f.new_value - f.upper), 0)

\* C24: for a valid bound pair, an in-bounds start and a finite perturbation
\* the reflection loop terminates (every pass brings the component strictly
\* closer to the interval) and leaves the component inside [lower, upper].
C24_ReflectionTerminatesInside ==
    [][/\ refl'.passes = refl.passes + 1 => Outside(refl') < Outside(refl)
       /\ refl'.pc = "exit" =>
              refl'.lower <= refl'.new_value /\ refl'.new_value <= refl'.upper
      ]_vars

\* the loop was left after two passes: the perturbation exceeded the width
C24_Witness ==
    /\ refl.pc = "exit"
    /\ refl.passes >= 2

\* C25: with a checkpoint directory and an objective that never raises,
\* optimize completes all n_iterations with success = true, and exactly the
\* iterations that are multiples of 10 have a checkpoint holding the
\* iteration number and the full history up to it.
C25_CheckpointedRunCompletes ==
    (ckpt.result.returned /\ ckpt.checkpoint_dir) =>
        /\ ckpt.result.success
        /\ Len(ckpt.history.iteration) = ckpt.n_iterations + 1
        /\ {f.iteration : f \in ckpt.files} =
               {t \in 1 .. ckpt.n_iterations : t % 10 = 0}
        /\ \A f \in ckpt.files :
               f.complete /\ Len(f.history.iteration) = f.iteration + 1

\* every objective value of the PSO run so far was finite: a NaN of the
\* initial evaluation stays the global best, a later one shows in the mean
FinitePSORun ==
    /\ gbest.value # NaN
    /\ \A k \in DOMAIN pso_history.swarm_mean_value :
           pso_history.swarm_mean_value[k].num # NaN

\* a is at least as good as b
AtLeastAsGood(a, b, maximize) == IF maximize THEN a >= b ELSE a <= b

\* C26: in a PSO run with finite objective values the history holds exactly
\* one entry per iteration, and in every entry the recorded global best is
\* at least as good as that iteration's swarm best and as the global best of
\* the previous entry.
C26_GlobalBestMonotone ==
    (pso_pc \in {"loop", "done", "failed"} /\ FinitePSORun) =>
        /\ Len(pso_history.iteration) = pso_iter
        /\ pso_pc = "done" => Len(pso_history.iteration) = pso.n_iterations
        /\ \A k \in DOMAIN pso_history.iteration :
               /\ pso_history.iteration[k] = k - 1
               /\ AtLeastAsGood(pso_history.global_best_value[k],
                                pso_history.swarm_best_value[k], pso.maximize)
               /\ k > 1 => AtLeastAsGood(pso_history.global_best_value[k],
                                         pso_history.global_best_value[k - 1],
                                         pso.maximize)

\* a finished two-iteration run: the swarm of the first iteration stayed
\* behind the global best, the swarm of the second caught up with it
C26_Witness ==
    /\ pso_pc = "done"
    /\ FinitePSORun
    /\ Len(pso_history.iteration) = 2
    /\ pso_history.global_best_value[1] # pso_history.swarm_best_value[1]
    /\ pso_history.global_best_value[2] = pso_history.swarm_best_value[2]

\* C27: within one run_parallel dispatch task i works only in run_<i>, and
\* no two tasks use the same run directory, whichever tasks run at the same
\* time and in whatever order they finish.
C27_RunDirectoriesDisjoint ==
    par_pc \in {"running", "returned"} =>
        /\ \A i \in Tasks :
               /\ status[i] = "running" => WorkDir(i) = i
               /\ outcome[i].run_dir # -1 => outcome[i].run_dir = i
        /\ \A i, j \in Tasks :
               (i # j /\ status[i] = "running" /\ status[j] = "running") =>
                   WorkDir(i) # WorkDir(j)

\* task 1 runs while task 0 has already left its record
C27_Witness ==
    /\ par_pc = "running"
    /\ n_runs = 2
    /\ status[0] = "finished"
    /\ outcome[0].run_dir = 0
    /\ status[1] = "running"

\* C28: in run_parallel, whenever a worker returned a record normally, the
\* record stored at its index is the worker's record, whether or not the
\* completion callback raised, and every task is collected before the return.
C28_WorkerRecordKept ==
    /\ par_pc \in {"running", "returned"} =>
           \A i \in Tasks :
               (status[i] = "collected" /\ outcome[i].kind # "future_exc") =>
                   results[i] = outcome[i]
    /\ par_pc = "returned" => \A i \in Tasks : status[i] = "collected"

\* C29: in a DDS run whose initial evaluation returned NaN, the final
\* best_value is finite whenever at least one evaluation was finite.
C29_NaNStartReplaced ==
    (/\ dds_pc = "done"
     /\ dds_history.objective_value[1] = NaN
     /\ \E k \in DOMAIN dds_history.objective_value :
            dds_history.objective_value[k] # NaN) =>
        dds_result.best_value # NaN

\* C30: every run_batch call returns exactly one batch result per supplied
\* parameter-set array, in the supplied order, whatever earlier calls were
\* made on the BatchRunner and whatever the length of batch_names.
C30_OneResultPerArray ==
    batch.pc = "returned" =>
        /\ Len(batch.returned) = Len(batch.parameter_sets_list)
        /\ \A j \in 1 .. Min(Len(batch.returned), Len(batch.parameter_sets_list)) :
               /\ batch.returned[j].batch_index = j - 1
               /\ batch.returned[j].n_runs = batch.parameter_sets_list[j]

====
